---- MODULE Spec2Model ----
(***************************************************************************)
(* TrenchBank card back end: the pending-deposit ledger, the two payment   *)
(* webhooks and the per-wallet balance store, all persisted in Vercel KV.  *)
(*                                                                         *)
(* Requests are served one at a time: a request arrives (req), its handler *)
(* runs as one action and leaves its response (resp), the response is sent.*)
(* A handler's store calls (kv.get, kv.set) are numbered in the order the  *)
(* handler issues them; the field F of a request is the set of call        *)
(* numbers at which the store throws while that request is served.         *)
(* Objects are records whose DOMAIN is the set of keys that are present,   *)
(* so that JavaScript's spread {...a, ...b} is the operator Spread.        *)
(* A balance amount is a JavaScript number: a binary floating-point value, *)
(* modelled with MantissaBits significant bits instead of 53, every sum    *)
(* and difference rounded to nearest, ties to even.  A deposit's amounts,  *)
(* currency and transition timestamps (sentAt, confirmedAt, creditedAt)    *)
(* are written but never read by the code and are left out of the records. *)
(***************************************************************************)
EXTENDS Integers, Sequences, FiniteSets, TLC

VARIABLES
    deposits,   \* KV value under 'pending_deposits': a list of deposit records
    snapshots,  \* KV values under 'webhook_deposit:<orderId>'
    balances,   \* KV values under 'balance:<wallet>'
    cards,      \* KV values under 'cards:<wallet>': lists of card records
    refunds,    \* KV value under 'pending_refunds': a list of refund records
    now,        \* Date.now(), in days
    uuids,      \* how many ids crypto.randomUUID() has handed out
    req,        \* the request being served, with what its environment does
    resp        \* the response of the handler, until it is sent

vars == <<deposits, snapshots, balances, cards, refunds, now, uuids, req, resp>>

---------------------------------------------------------------------------
(* Bounds *)

MaxDeposits == 2    \* longest stored deposit list
MaxFaults == 1      \* adverse events (a store call that throws, a forged
                    \* signature) within one request
MaxUuids == 2       \* ids crypto.randomUUID() can hand out
MaxAmount == 2      \* largest absolute amount of a balance request
MaxBalance == 4     \* largest absolute value of a stored balance field
MantissaBits == 2   \* significant bits of a number (a double has 53)
MaxCards == 2       \* longest stored card list of a wallet
MaxRefunds == 2     \* longest stored refund list
MaxCardUuids == 3   \* ids crypto.randomUUID() can hand out to cards

PaymentIds == {"p1", "p2"}
Orders == {"o1", "o2"}
Wallets == {"w1", "w2"}
CardIds == {"card1", "card2"}

---------------------------------------------------------------------------
(* JavaScript values *)

\* a key holding undefined; JSON serialisation drops it
UNDEF == "undefined"

\* null
NULL == [null |-> TRUE]

\* {...a, ...b}
Spread(a, b) ==
    [k \in (DOMAIN a) \cup (DOMAIN b) |-> IF k \in DOMAIN b THEN b[k] ELSE a[k]]

\* what JSON.stringify keeps of an object: the keys whose value is not undefined
Json(r) ==
    [k \in {j \in DOMAIN r : ~(j = "cardId" /\ r[j] = UNDEF)} |-> r[k]]

JsonList(l) == [i \in 1..Len(l) |-> Json(l[i])]

\* !!d.key
Truthy(d, key) == key \in DOMAIN d /\ d[key] = TRUE

\* the sets of store-call numbers, among the first K, at which the store throws
RECURSIVE FaultSetsUpTo(_, _)
FaultSetsUpTo(K, m) ==
    IF m = 0 THEN {{}}
    ELSE LET fewer == FaultSetsUpTo(K, m - 1)
         IN  fewer \cup {S \cup {i} : S \in fewer, i \in 1..K}

FaultSets(K) == FaultSetsUpTo(K, MaxFaults)

---------------------------------------------------------------------------
(* The pending-deposit ledger.  A handler state st is                      *)
(*   kv     the stored list                                                *)
(*   n      store calls issued so far                                      *)
(*   w      kv.set calls that succeeded                                    *)
(*   thrown whether an exception is propagating                            *)

StatusSet == {"pending", "sent", "confirmed", "credited", "failed", "expired"}

Start(kv) == [kv |-> kv, n |-> 0, w |-> 0, thrown |-> FALSE]

Fails(st, F) == (st.n + 1) \in F

\* loadPendingDeposits: kv.get, [] when the key is absent or the store throws
loadPendingDeposits(st, F) ==
    [val |-> IF Fails(st, F) THEN << >> ELSE st.kv,
     st  |-> [st EXCEPT !.n = @ + 1]]

\* savePendingDeposits: kv.set, rethrowing the store's exception
savePendingDeposits(st, F, list) ==
    IF Fails(st, F)
    THEN [st EXCEPT !.n = @ + 1, !.thrown = TRUE]
    ELSE [st EXCEPT !.n = @ + 1, !.w = @ + 1, !.kv = JsonList(list)]

\* deposits.findIndex(d => d.paymentId === paymentId), 0 for -1
findIndex(list, paymentId) ==
    IF \E i \in 1..Len(list) : list[i].paymentId = paymentId
    THEN CHOOSE i \in 1..Len(list) :
            /\ list[i].paymentId = paymentId
            /\ \A j \in 1..(i - 1) : list[j].paymentId # paymentId
    ELSE 0

\* addPendingDeposit: load, push, save
addPendingDeposit(st, F, deposit, uuid, t) ==
    LET l == loadPendingDeposits(st, F)
        newDeposit == Spread(deposit,
                             [id |-> uuid, createdAt |-> t, status |-> "pending"])
        s2 == savePendingDeposits(l.st, F, Append(l.val, newDeposit))
    IN  [val |-> newDeposit, st |-> s2]

\* updateDepositStatus as an upsert: an unknown payment id gets a new record
updateDepositStatus_upsert(st, F, paymentId, status, additionalData) ==
    LET l == loadPendingDeposits(st, F)
        index == findIndex(l.val, paymentId)
        merged == Spread(Spread(IF index # 0 THEN l.val[index]
                                ELSE [paymentId |-> paymentId, id |-> 0,
                                      createdAt |-> 0],
                                additionalData),
                         [status |-> status])
        s2 == savePendingDeposits(l.st, F,
                                  IF index # 0
                                  THEN [l.val EXCEPT ![index] = merged]
                                  ELSE Append(l.val, merged))
    IN  [val |-> merged, st |-> s2]

\* updateDepositStatus: load, find by paymentId, merge, save; null when not found
updateDepositStatus(st, F, paymentId, status, additionalData) ==
    LET l == loadPendingDeposits(st, F)
        index == findIndex(l.val, paymentId)
    IN  IF index # 0
        THEN LET merged == Spread(Spread(l.val[index], additionalData),
                                  [status |-> status])
                 s2 == savePendingDeposits(l.st, F,
                                           [l.val EXCEPT ![index] = merged])
             IN  [val |-> merged, st |-> s2]
        ELSE [val |-> NULL, st |-> l.st]

\* getDepositByPaymentId: the first record with the payment id, or null
getDepositByPaymentId(st, F, paymentId) ==
    LET l == loadPendingDeposits(st, F)
        index == findIndex(l.val, paymentId)
    IN  [val |-> IF index # 0 THEN l.val[index] ELSE NULL, st |-> l.st]

markDepositAsSent(st, F, paymentId) ==
    updateDepositStatus(st, F, paymentId, "sent", << >>)

markDepositAsConfirmed(st, F, paymentId) ==
    updateDepositStatus(st, F, paymentId, "confirmed", << >>)

markDepositAsCredited(st, F, paymentId, cardCreated, cardId) ==
    updateDepositStatus(st, F, paymentId, "credited",
                        [cardCreated |-> cardCreated, cardId |-> cardId])

markDepositAsFailed(st, F, paymentId, error) ==
    updateDepositStatus(st, F, paymentId, "failed", [error |-> error])

\* cleanupExpiredDeposits: pending and sent records older than seven days
\* become expired; one save when any did; returns the count
SEVEN_DAYS == 7

\* the age test with >= for >
isExpired_fromSevenDays(d, t) ==
    /\ d.status \in {"pending", "sent"}
    /\ (t - d.createdAt) >= SEVEN_DAYS

isExpired(d, t) ==
    /\ d.status \in {"pending", "sent"}
    /\ (t - d.createdAt) > SEVEN_DAYS

cleanupExpiredDeposits(st, F, t) ==
    LET l == loadPendingDeposits(st, F)
        swept == [i \in 1..Len(l.val) |->
                    IF isExpired(l.val[i], t)
                    THEN [l.val[i] EXCEPT !.status = "expired"]
                    ELSE l.val[i]]
        expiredCount == Cardinality({i \in 1..Len(l.val) : isExpired(l.val[i], t)})
    IN  [val |-> expiredCount,
         st  |-> IF expiredCount > 0
                 THEN savePendingDeposits(l.st, F, swept)
                 ELSE l.st]

\* deposits.filter(d => d.status === status).length
countStatus(list, status) ==
    Cardinality({i \in 1..Len(list) : list[i].status = status})

\* getPendingDeposits: the loaded records in status pending or sent
getPendingDeposits(st, F) ==
    LET l == loadPendingDeposits(st, F)
    IN  [val |-> SelectSeq(l.val, LAMBDA d : d.status = "pending" \/ d.status = "sent"),
         st  |-> l.st]

\* getConfirmedDeposits: the loaded records in status confirmed or credited
getConfirmedDeposits(st, F) ==
    LET l == loadPendingDeposits(st, F)
    IN  [val |-> SelectSeq(l.val, LAMBDA d : d.status = "confirmed"
                                             \/ d.status = "credited"),
         st  |-> l.st]

\* getDepositSummary with sent records counted as pending too
getDepositSummary_pendingCountsSent(st, F) ==
    LET l == loadPendingDeposits(st, F)
    IN  [val |-> [total |-> Len(l.val),
                  pending |-> countStatus(l.val, "pending")
                              + countStatus(l.val, "sent"),
                  sent |-> countStatus(l.val, "sent"),
                  confirmed |-> countStatus(l.val, "confirmed"),
                  credited |-> countStatus(l.val, "credited"),
                  failed |-> countStatus(l.val, "failed"),
                  expired |-> countStatus(l.val, "expired")],
         st  |-> l.st]

\* getDepositSummary: the length of the loaded list and its count per status
getDepositSummary(st, F) ==
    LET l == loadPendingDeposits(st, F)
    IN  [val |-> [total |-> Len(l.val),
                  pending |-> countStatus(l.val, "pending"),
                  sent |-> countStatus(l.val, "sent"),
                  confirmed |-> countStatus(l.val, "confirmed"),
                  credited |-> countStatus(l.val, "credited"),
                  failed |-> countStatus(l.val, "failed"),
                  expired |-> countStatus(l.val, "expired")],
         st  |-> l.st]

---------------------------------------------------------------------------
(* POST /api/kripicard/webhook *)

\* the confirmation statuses with cancel among them
ConfirmStatuses_withCancel == {"paid", "paid_over", "confirm_check", "cancel"}

ConfirmStatuses == {"paid", "paid_over", "confirm_check"}
FailStatuses == {"cancel", "fail", "wrong_amount"}
WebhookStatuses == ConfirmStatuses \cup FailStatuses \cup {"process"}

\* `Payment ${status}`
PaymentError(status) ==
    CASE status = "cancel" -> "Payment cancel"
      [] status = "fail" -> "Payment fail"
      [] OTHER -> "Payment wrong_amount"

\* the inner catch block when it only logs the exception
cardCatch_logOnly(st, F, paymentId) == [st EXCEPT !.thrown = FALSE]

\* the inner catch block: the exception is caught, then credited without a card
cardCatch(st, F, paymentId) ==
    markDepositAsCredited([st EXCEPT !.thrown = FALSE], F, paymentId, FALSE, UNDEF).st

\* the try block around the card-creation call; card is what the call did:
\* "success" (cardResult.success), "failure", or "throws" (fetch or json() threw)
cardTry(st, F, paymentId, card, cardId) ==
    IF card = "throws"
    THEN cardCatch(st, F, paymentId)
    ELSE LET m == IF card = "success"
                  THEN markDepositAsCredited(st, F, paymentId, TRUE, cardId)
                  ELSE markDepositAsCredited(st, F, paymentId, FALSE, UNDEF)
         IN  IF m.st.thrown THEN cardCatch(m.st, F, paymentId) ELSE m.st

\* the handler's outcome: the store, the HTTP code, the card-creation calls made
Reply(st, cardCalls) ==
    [kv |-> st.kv, code |-> IF st.thrown THEN 500 ELSE 200,
     cardCalls |-> cardCalls, writes |-> st.w, calls |-> st.n]

\* the ids handed out so far, given the ids the stored records hold
UuidsUsed(kv, before) ==
    IF \E i \in 1..Len(kv) : kv[i].id > before THEN before + 1 ELSE before

kripicardPOST(kv, F, parseOk, paymentId, status, card, cardId, uuid, t) ==
    IF ~parseOk
    THEN Reply([Start(kv) EXCEPT !.thrown = TRUE], 0)
    ELSE
    LET g == getDepositByPaymentId(Start(kv), F, paymentId)
        a == IF g.val = NULL
             THEN addPendingDeposit(g.st, F, [paymentId |-> paymentId], uuid, t)
             ELSE g
        deposit == a.val
    IN  IF a.st.thrown THEN Reply(a.st, 0)
        ELSE IF status \in ConfirmStatuses
        THEN LET c == markDepositAsConfirmed(a.st, F, paymentId)
             IN  IF c.st.thrown THEN Reply(c.st, 0)
                 ELSE IF ~Truthy(deposit, "cardCreated")
                 THEN Reply(cardTry(c.st, F, paymentId, card, cardId), 1)
                 ELSE Reply(c.st, 0)
        ELSE IF status \in FailStatuses
        THEN Reply(markDepositAsFailed(a.st, F, paymentId, PaymentError(status)).st, 0)
        ELSE Reply(a.st, 0)

---------------------------------------------------------------------------
(* Serving requests *)

NONE == [op |-> "none"]

Idle == req = NONE /\ resp = NONE

Pending(op) == req.op = op /\ resp = NONE

Init ==
    /\ deposits = << >>
    /\ snapshots = << >>
    /\ balances = << >>
    /\ cards = << >>
    /\ refunds = << >>
    /\ now = 0
    /\ uuids = 0
    /\ req = NONE
    /\ resp = NONE

\* a request arrives
Receive(requests) ==
    /\ Idle
    /\ \E r \in requests : req' = r
    /\ UNCHANGED <<deposits, snapshots, balances, now, uuids, resp, cards, refunds>>

\* the response is sent
Respond ==
    /\ resp # NONE
    /\ req' = NONE
    /\ resp' = NONE
    /\ UNCHANGED <<deposits, snapshots, balances, now, uuids, cards, refunds>>

\* the days on which requests arrive: the first two, and the two around the
\* end of the expiry period of the first
Instants == {0, 1, SEVEN_DAYS, SEVEN_DAYS + 1}

\* time passes
Tick ==
    /\ Idle
    /\ \E t \in Instants : t > now /\ now' = t
    /\ UNCHANGED <<deposits, snapshots, balances, uuids, req, resp, cards, refunds>>

---------------------------------------------------------------------------
(* The ledger under its library operations *)

MarkOps == {"markDepositAsSent", "markDepositAsConfirmed",
            "markDepositAsCredited", "markDepositAsFailed"}

QueryOps == {"getPendingDeposits", "getConfirmedDeposits"}

LedgerRequests ==
    {[op |-> "addPendingDeposit", paymentId |-> p, F |-> F] :
        p \in PaymentIds, F \in FaultSets(2)}
    \cup {[op |-> o, paymentId |-> p, F |-> F, cardCreated |-> FALSE] :
        o \in MarkOps, p \in PaymentIds, F \in FaultSets(2)}
    \cup {[op |-> "markDepositAsCredited", paymentId |-> p, F |-> F,
           cardCreated |-> TRUE] : p \in PaymentIds, F \in FaultSets(2)}
    \cup {[op |-> "cleanupExpiredDeposits", F |-> F] : F \in FaultSets(2)}
    \cup {[op |-> o, F |-> F] : o \in QueryOps \cup {"getDepositSummary"},
                                F \in FaultSets(1)}

ReceiveLedger == Receive(LedgerRequests)

\* a caller of addPendingDeposit (a user-initiated deposit)
AddPendingDeposit ==
    /\ Pending("addPendingDeposit")
    /\ \E r \in {addPendingDeposit(Start(deposits), req.F,
                                   [paymentId |-> req.paymentId],
                                   uuids + 1, now)} :
        /\ uuids < MaxUuids
        /\ Len(r.st.kv) <= MaxDeposits
        /\ deposits' = r.st.kv
        /\ uuids' = UuidsUsed(r.st.kv, uuids)
        /\ resp' = [thrown |-> r.st.thrown, writes |-> r.st.w]
    /\ UNCHANGED <<snapshots, balances, now, req, cards, refunds>>

\* the call a mark-as request makes
markCall(kv, r) ==
    CASE r.op = "markDepositAsSent" ->
            markDepositAsSent(Start(kv), r.F, r.paymentId)
      [] r.op = "markDepositAsConfirmed" ->
            markDepositAsConfirmed(Start(kv), r.F, r.paymentId)
      [] r.op = "markDepositAsCredited" ->
            markDepositAsCredited(Start(kv), r.F, r.paymentId, r.cardCreated,
                                  IF r.cardCreated THEN "card1" ELSE UNDEF)
      [] OTHER ->
            markDepositAsFailed(Start(kv), r.F, r.paymentId, "Payment fail")

\* callers of the mark-as helpers, each a call of updateDepositStatus
MarkDeposit ==
    /\ req.op \in MarkOps /\ resp = NONE
    /\ \E r \in {markCall(deposits, req)} :
        /\ deposits' = r.st.kv
        /\ resp' = [null |-> (r.val = NULL), thrown |-> r.st.thrown,
                    writes |-> r.st.w]
    /\ UNCHANGED <<snapshots, balances, now, uuids, req, cards, refunds>>

CleanupExpiredDeposits ==
    /\ Pending("cleanupExpiredDeposits")
    /\ \E r \in {cleanupExpiredDeposits(Start(deposits), req.F, now)} :
        /\ deposits' = r.st.kv
        /\ resp' = [count |-> r.val, thrown |-> r.st.thrown, writes |-> r.st.w]
    /\ UNCHANGED <<snapshots, balances, now, uuids, req, cards, refunds>>

\* callers of the two status queries
GetDeposits ==
    /\ req.op \in QueryOps /\ resp = NONE
    /\ \E r \in {IF req.op = "getPendingDeposits"
                 THEN getPendingDeposits(Start(deposits), req.F)
                 ELSE getConfirmedDeposits(Start(deposits), req.F)} :
        /\ deposits' = r.st.kv
        /\ resp' = [list |-> r.val, thrown |-> r.st.thrown, writes |-> r.st.w]
    /\ UNCHANGED <<snapshots, balances, now, uuids, req, cards, refunds>>

GetDepositSummary ==
    /\ Pending("getDepositSummary")
    /\ \E r \in {getDepositSummary(Start(deposits), req.F)} :
        /\ deposits' = r.st.kv
        /\ resp' = [summary |-> r.val, thrown |-> r.st.thrown, writes |-> r.st.w]
    /\ UNCHANGED <<snapshots, balances, now, uuids, req, cards, refunds>>

Next ==
    \/ Tick
    \/ ReceiveLedger
    \/ AddPendingDeposit
    \/ MarkDeposit
    \/ CleanupExpiredDeposits
    \/ GetDeposits
    \/ GetDepositSummary
    \/ Respond

Spec == Init /\ [][Next]_vars

---------------------------------------------------------------------------
(* Deliveries to POST /api/kripicard/webhook.  A delivery says whether its   *)
(* body is JSON (parsed), whether the body's sign field is the signature of *)
(* the rest (sigValid), and what the card-creation endpoint does if the     *)
(* handler calls it (card, cardId).                                         *)

\* what the card-creation endpoint may do, when it is called at all
CardOutcomes(status) ==
    IF status \in ConfirmStatuses THEN {"success", "failure", "throws"}
    ELSE {"throws"}

KripicardDeliveries ==
    {[op |-> "kripicardPOST", parsed |-> FALSE, sigValid |-> FALSE]}
    \cup UNION {
        {[op |-> "kripicardPOST", parsed |-> TRUE, sigValid |-> v,
          paymentId |-> p, status |-> s, card |-> c, cardId |-> "card1",
          F |-> F] : c \in CardOutcomes(s), p \in PaymentIds,
                     F \in {G \in FaultSets(9) :
                              Cardinality(G) + (IF v THEN 0 ELSE 1) <= MaxFaults}}
        : s \in WebhookStatuses, v \in BOOLEAN}

ReceiveKripicard == Receive(KripicardDeliveries)

KripicardWebhook ==
    /\ Pending("kripicardPOST")
    /\ \E r \in {IF req.parsed
                 THEN kripicardPOST(deposits, req.F, TRUE, req.paymentId,
                                    req.status, req.card, req.cardId,
                                    uuids + 1, now)
                 ELSE kripicardPOST(deposits, {}, FALSE, "p1", "paid", "throws",
                                    "card1", uuids + 1, now)} :
        /\ UuidsUsed(r.kv, uuids) <= MaxUuids
        /\ Len(r.kv) <= MaxDeposits
        /\ deposits' = r.kv
        /\ uuids' = UuidsUsed(r.kv, uuids)
        /\ resp' = [code |-> r.code, cardCalls |-> r.cardCalls,
                    writes |-> r.writes, calls |-> r.calls]
    /\ UNCHANGED <<snapshots, balances, now, req, cards, refunds>>

NextKripicard ==
    \/ ReceiveKripicard
    \/ KripicardWebhook
    \/ Respond

SpecKripicard == Init /\ [][NextKripicard]_vars

---------------------------------------------------------------------------
(* Two ledger writers in flight at once.  A writer awaits kv.get, computes  *)
(* the new list from what it loaded and awaits kv.set; the other writer may *)
(* run between the two.  req holds both calls: for each its position (pc:   *)
(* start, loaded, done), the list it loaded and its result; order is the    *)
(* order in which the writers finished, overlap whether both held a loaded  *)
(* list at the same time.                                                   *)

WriterCalls ==
    {[call |-> "addPendingDeposit", paymentId |-> p] : p \in PaymentIds}
    \cup {[call |-> o, paymentId |-> p] :
            o \in {"markDepositAsSent", "markDepositAsConfirmed"},
            p \in PaymentIds}

WriterRequests ==
    {[op |-> "writers", calls |-> <<c1, c2>>, pc |-> <<"start", "start">>,
      loaded |-> << << >>, << >> >>, result |-> <<NULL, NULL>>,
      saved |-> <<FALSE, FALSE>>, order |-> << >>, overlap |-> FALSE] :
        c1 \in WriterCalls, c2 \in WriterCalls}

ReceiveWriters == Receive(WriterRequests)

\* the call of a writer from its kv.get on, the kv.get having returned loaded
writerCall(loaded, c, uuid, t) ==
    IF c.call = "addPendingDeposit"
    THEN addPendingDeposit(Start(loaded), {}, [paymentId |-> c.paymentId], uuid, t)
    ELSE markCall(loaded, [op |-> c.call, paymentId |-> c.paymentId, F |-> {},
                           cardCreated |-> FALSE])

\* a writer that loads the list again right before it saves
writerSave_reload(stored, loaded, c, uuid, t) ==
    LET r == writerCall(stored, c, uuid, t)
    IN  [val |-> r.val, saved |-> r.st.w > 0,
         kv |-> IF r.st.w > 0 THEN r.st.kv ELSE stored]

\* the rest of a writer's call after its kv.get returned loaded: its return
\* value, whether it called kv.set, and the stored list afterwards
writerSave(stored, loaded, c, uuid, t) ==
    LET r == writerCall(loaded, c, uuid, t)
    IN  [val |-> r.val, saved |-> r.st.w > 0,
         kv |-> IF r.st.w > 0 THEN r.st.kv ELSE stored]

\* a writer's kv.get returns
WriterLoad ==
    /\ Pending("writers")
    /\ \E i \in 1..2 :
        /\ req.pc[i] = "start"
        /\ req' = [req EXCEPT
                    !.pc[i] = "loaded",
                    !.loaded[i] = loadPendingDeposits(Start(deposits), {}).val,
                    !.overlap = @ \/ req.pc[3 - i] = "loaded"]
    /\ UNCHANGED <<deposits, snapshots, balances, now, uuids, resp, cards, refunds>>

\* a writer computes its list, saves it and returns
WriterSave ==
    /\ Pending("writers")
    /\ \E i \in 1..2 :
        /\ req.pc[i] = "loaded"
        /\ \E r \in {writerSave(deposits, req.loaded[i], req.calls[i],
                                 uuids + 1, now)} :
            /\ UuidsUsed(r.kv, uuids) <= MaxUuids
            /\ Len(r.kv) <= MaxDeposits
            /\ deposits' = r.kv
            /\ uuids' = UuidsUsed(r.kv, uuids)
            /\ req' = [req EXCEPT !.pc[i] = "done", !.result[i] = r.val,
                                  !.saved[i] = r.saved, !.order = Append(@, i)]
    /\ UNCHANGED <<snapshots, balances, now, resp, cards, refunds>>

\* both writers have returned
WritersDone ==
    /\ Pending("writers")
    /\ req.pc = <<"done", "done">>
    /\ resp' = [thrown |-> FALSE, writes |-> Cardinality({i \in 1..2 : req.saved[i]})]
    /\ UNCHANGED <<deposits, snapshots, balances, now, uuids, req, cards, refunds>>

NextWriters ==
    \/ ReceiveWriters
    \/ WriterLoad
    \/ WriterSave
    \/ WritersDone
    \/ Respond

SpecWriters == Init /\ [][NextWriters]_vars

---------------------------------------------------------------------------
(* The balance store: GET and POST of the balance route *)

\* the spacing of the numbers around a magnitude: 1 below 2^MantissaBits,
\* doubling with every power of two above
RECURSIVE ulp(_)
ulp(a) == IF a < 2 ^ MantissaBits THEN 1 ELSE 2 * ulp(a \div 2)

\* the number nearest to the exact result n of a sum or difference, ties to the
\* even significand
Round(n) ==
    LET a == IF n < 0 THEN 0 - n ELSE n
        u == ulp(a)
        q == a \div u
        r == a % u
        m == IF 2 * r > u \/ (2 * r = u /\ q % 2 = 1) THEN q + 1 ELSE q
    IN  IF n < 0 THEN 0 - (m * u) ELSE m * u

\* the numbers a request can carry as its amount
Amounts == {n \in (0 - MaxAmount)..MaxAmount : Round(n) = n}

\* kv.set(key, value) on a map of keys to values
KvPut(kv, k, v) == [x \in (DOMAIN kv) \cup {k} |-> IF x = k THEN v ELSE kv[x]]

ZeroBalance(t) ==
    [balance |-> 0, totalDeposited |-> 0, totalSpent |-> 0, lastUpdated |-> t]

\* getBalance: kv.get, the zeroed record when the key is absent or the store throws
getBalance(st, F, walletAddress, t) ==
    [val |-> IF Fails(st, F) \/ walletAddress \notin DOMAIN st.kv
             THEN ZeroBalance(t)
             ELSE st.kv[walletAddress],
     st  |-> [st EXCEPT !.n = @ + 1]]

\* saveBalance: kv.set, rethrowing the store's exception
saveBalance(st, F, walletAddress, balance) ==
    IF Fails(st, F)
    THEN [st EXCEPT !.n = @ + 1, !.thrown = TRUE]
    ELSE [st EXCEPT !.n = @ + 1, !.w = @ + 1,
                    !.kv = KvPut(st.kv, walletAddress, balance)]

BalanceReply(st, code, message) ==
    [kv |-> st.kv, code |-> code, message |-> message, writes |-> st.w]

\* POST: body is the parsed JSON body, a record of the keys it holds
balancePOST(kv, F, parsed, body, t) ==
    IF ~parsed
    THEN BalanceReply(Start(kv), 500, "Internal server error")
    ELSE IF \/ "walletAddress" \notin DOMAIN body
            \/ "action" \notin DOMAIN body
            \/ "amount" \notin DOMAIN body
    THEN BalanceReply(Start(kv), 400, "Invalid request parameters")
    ELSE
    LET g == getBalance(Start(kv), F, body.walletAddress, t)
        current == g.val
        amount == body.amount
    IN  IF body.action = "credit"
        THEN LET s2 == saveBalance(g.st, F, body.walletAddress,
                        [current EXCEPT !.balance = Round(@ + amount),
                                        !.totalDeposited = Round(@ + amount),
                                        !.lastUpdated = t])
             IN  IF s2.thrown THEN BalanceReply(s2, 500, "Internal server error")
                 ELSE BalanceReply(s2, 200, "")
        ELSE IF body.action = "debit"
        THEN IF current.balance < amount
             THEN BalanceReply(g.st, 400, "Insufficient balance")
             ELSE LET s2 == saveBalance(g.st, F, body.walletAddress,
                        [current EXCEPT !.balance = Round(@ - amount),
                                        !.totalSpent = Round(@ + amount),
                                        !.lastUpdated = t])
                  IN  IF s2.thrown
                      THEN BalanceReply(s2, 500, "Internal server error")
                      ELSE BalanceReply(s2, 200, "")
        ELSE BalanceReply(g.st, 400, "Invalid action. Use \"credit\" or \"debit\"")

\* GET ?wallet=...: query is the record of the query parameters given
\* GET when it stores the record it answers with
balanceGET_persists(kv, F, query, t) ==
    IF "wallet" \notin DOMAIN query
    THEN [kv |-> kv, code |-> 400, message |-> "Wallet address is required",
          writes |-> 0, data |-> ZeroBalance(t)]
    ELSE LET g == getBalance(Start(kv), F, query.wallet, t)
             s2 == saveBalance(g.st, {}, query.wallet, g.val)
         IN  [kv |-> s2.kv, code |-> 200, message |-> "", writes |-> s2.w,
              data |-> g.val]

\* GET ?wallet=...: query is the record of the query parameters given
balanceGET(kv, F, query, t) ==
    IF "wallet" \notin DOMAIN query
    THEN [kv |-> kv, code |-> 400, message |-> "Wallet address is required",
          writes |-> 0, data |-> ZeroBalance(t)]
    ELSE LET g == getBalance(Start(kv), F, query.wallet, t)
         IN  [kv |-> g.st.kv, code |-> 200, message |-> "", writes |-> g.st.w,
              data |-> g.val]

\* every field of every stored balance record is within the model's range
InRange(kv) ==
    \A w \in DOMAIN kv :
        /\ kv[w].balance \in (0 - MaxBalance)..MaxBalance
        /\ kv[w].totalDeposited \in (0 - MaxBalance)..MaxBalance
        /\ kv[w].totalSpent \in (0 - MaxBalance)..MaxBalance

\* the bodies of the POSTs: every action and amount for the first wallet, a
\* credit and a debit of 1 for the others, and the bodies that lack a field
BalanceBodies ==
    {[walletAddress |-> "w1", action |-> a, amount |-> n] :
        a \in {"credit", "debit", "refund"}, n \in Amounts}
    \cup {[walletAddress |-> w, action |-> a, amount |-> 1] :
        w \in Wallets \ {"w1"}, a \in {"credit", "debit"}}
    \cup {[action |-> "credit", amount |-> 1],
          [walletAddress |-> "w1", amount |-> 1],
          [walletAddress |-> "w1", action |-> "debit"]}

BalanceRequests ==
    {[op |-> "balancePOST", parsed |-> TRUE, body |-> b, F |-> F] :
        b \in BalanceBodies, F \in FaultSets(2)}
    \cup {[op |-> "balancePOST", parsed |-> FALSE]}
    \cup {[op |-> "balanceGET", query |-> [wallet |-> w], F |-> F] :
            w \in Wallets, F \in FaultSets(1)}
    \cup {[op |-> "balanceGET", query |-> << >>, F |-> {}]}

ReceiveBalance == Receive(BalanceRequests)

BalancePost ==
    /\ Pending("balancePOST")
    /\ \E r \in {IF req.parsed
                 THEN balancePOST(balances, req.F, TRUE, req.body, now)
                 ELSE balancePOST(balances, {}, FALSE, << >>, now)} :
        /\ InRange(r.kv)
        /\ balances' = r.kv
        /\ resp' = [code |-> r.code, message |-> r.message, writes |-> r.writes]
    /\ UNCHANGED <<deposits, snapshots, now, uuids, req, cards, refunds>>

BalanceGet ==
    /\ Pending("balanceGET")
    /\ \E r \in {balanceGET(balances, req.F, req.query, now)} :
        /\ balances' = r.kv
        /\ resp' = [code |-> r.code, message |-> r.message, writes |-> r.writes,
                    data |-> r.data]
    /\ UNCHANGED <<deposits, snapshots, now, uuids, req, cards, refunds>>

NextBalance ==
    \/ ReceiveBalance
    \/ BalancePost
    \/ BalanceGet
    \/ Respond

SpecBalance == Init /\ [][NextBalance]_vars

---------------------------------------------------------------------------
(* Two kripicard deliveries in flight at once.  A delivery of a confirmation *)
(* status looks its deposit up, confirms it and, the deposit it looked up    *)
(* not being card-created, awaits the card-creation endpoint; the other      *)
(* delivery may run while it waits.  req holds both: for each its position   *)
(* (pc: start, fetching, done) and whether the endpoint returned success.    *)
(* The store calls succeed, and the calls before the fetch run unseparated. *)

DeliveryPairs ==
    {[op |-> "deliveries",
      d |-> <<[paymentId |-> p1, status |-> s1, card |-> c1, cardId |-> "card1"],
              [paymentId |-> p2, status |-> s2, card |-> c2, cardId |-> "card2"]>>,
      pc |-> <<"start", "start">>, success |-> <<FALSE, FALSE>>,
      overlap |-> FALSE] :
        p1 \in PaymentIds, p2 \in PaymentIds,
        s1 \in {"paid", "confirm_check"}, s2 \in {"paid", "confirm_check"},
        c1 \in CardOutcomes("paid"), c2 \in CardOutcomes("paid")}

ReceiveDeliveries == Receive(DeliveryPairs)

\* the handler of a confirmation status up to its test of deposit.cardCreated:
\* the store afterwards and whether the deposit it looked up is card-created
deliveryLookup(kv, paymentId, uuid, t) ==
    LET g == getDepositByPaymentId(Start(kv), {}, paymentId)
        a == IF g.val = NULL
             THEN addPendingDeposit(g.st, {}, [paymentId |-> paymentId], uuid, t)
             ELSE g
        c == markDepositAsConfirmed(a.st, {}, paymentId)
    IN  [kv |-> c.st.kv, cardCreated |-> Truthy(a.val, "cardCreated")]

\* a delivery runs up to its fetch of the card-creation endpoint, or to its end
\* when the deposit it looked up is card-created
DeliveryLookup ==
    /\ Pending("deliveries")
    /\ \E i \in 1..2 :
        /\ req.pc[i] = "start"
        /\ \E r \in {deliveryLookup(deposits, req.d[i].paymentId, uuids + 1, now)} :
            /\ UuidsUsed(r.kv, uuids) <= MaxUuids
            /\ Len(r.kv) <= MaxDeposits
            /\ deposits' = r.kv
            /\ uuids' = UuidsUsed(r.kv, uuids)
            /\ req' = [req EXCEPT
                        !.pc[i] = IF r.cardCreated THEN "done" ELSE "fetching",
                        !.overlap = @ \/ (~r.cardCreated
                                            /\ req.pc[3 - i] = "fetching")]
    /\ UNCHANGED <<snapshots, balances, now, resp, cards, refunds>>

\* the card-creation endpoint answers a delivery, which records the outcome
DeliveryCard ==
    /\ Pending("deliveries")
    /\ \E i \in 1..2 :
        /\ req.pc[i] = "fetching"
        /\ deposits' = cardTry(Start(deposits), {}, req.d[i].paymentId,
                               req.d[i].card, req.d[i].cardId).kv
        /\ req' = [req EXCEPT !.pc[i] = "done",
                              !.success[i] = (req.d[i].card = "success")]
    /\ UNCHANGED <<snapshots, balances, now, uuids, resp, cards, refunds>>

\* both deliveries have been answered
DeliveriesDone ==
    /\ Pending("deliveries")
    /\ req.pc = <<"done", "done">>
    /\ resp' = [code |-> 200,
                cardCalls |-> Cardinality({i \in 1..2 : req.success[i]})]
    /\ UNCHANGED <<deposits, snapshots, balances, now, uuids, req, cards, refunds>>

NextDeliveries ==
    \/ ReceiveDeliveries
    \/ DeliveryLookup
    \/ DeliveryCard
    \/ DeliveriesDone
    \/ Respond

SpecDeliveries == Init /\ [][NextDeliveries]_vars

---------------------------------------------------------------------------
(* Two balance POSTs in flight at once.  A POST awaits getBalance, computes *)
(* the new record from what it read and awaits saveBalance; the other POST  *)
(* may run between the two.  req holds both: for each its position (pc:     *)
(* start, loaded, done), the store as its getBalance saw it and its answer. *)

PosterBodies ==
    {[walletAddress |-> w, action |-> a, amount |-> n] :
        w \in Wallets, a \in {"credit", "debit"}, n \in 1..MaxAmount}

PosterRequests ==
    {[op |-> "posters", bodies |-> <<b1, b2>>, pc |-> <<"start", "start">>,
      loaded |-> << << >>, << >> >>, code |-> <<0, 0>>,
      order |-> << >>, overlap |-> FALSE] :
        b1 \in PosterBodies, b2 \in PosterBodies}

ReceivePosters == Receive(PosterRequests)

\* a POST that reads the balance again right before it saves
posterSave_reload(stored, loaded, body, t) ==
    LET r == balancePOST(stored, {}, TRUE, body, t)
    IN  [code |-> r.code,
         kv |-> IF r.writes > 0
                THEN KvPut(stored, body.walletAddress, r.kv[body.walletAddress])
                ELSE stored]

\* a POST that decides on the record it read and then adds its amount to, or
\* takes it from, the balance stored at the time of the save
posterSave_onStored(stored, loaded, body, t) ==
    LET r == balancePOST(loaded, {}, TRUE, body, t)
        w == body.walletAddress
        cur == IF w \in DOMAIN stored THEN stored[w] ELSE ZeroBalance(t)
        d == IF body.action = "credit" THEN body.amount ELSE 0 - body.amount
    IN  [code |-> r.code,
         kv |-> IF r.writes > 0
                THEN KvPut(stored, w,
                           [r.kv[w] EXCEPT !.balance = Round(cur.balance + d)])
                ELSE stored]

\* the rest of a POST after its getBalance has read the store as loaded: its
\* answer and the store after its kv.set of the wallet's key, if it makes one
posterSave(stored, loaded, body, t) ==
    LET r == balancePOST(loaded, {}, TRUE, body, t)
    IN  [code |-> r.code,
         kv |-> IF r.writes > 0
                THEN KvPut(stored, body.walletAddress, r.kv[body.walletAddress])
                ELSE stored]

\* a POST's getBalance returns
PosterLoad ==
    /\ Pending("posters")
    /\ \E i \in 1..2 :
        /\ req.pc[i] = "start"
        /\ req' = [req EXCEPT !.pc[i] = "loaded",
                              !.loaded[i] = balances,
                              !.overlap = @ \/ req.pc[3 - i] = "loaded"]
    /\ UNCHANGED <<deposits, snapshots, balances, now, uuids, resp, cards, refunds>>

\* a POST computes its record, saves it and answers
PosterSave ==
    /\ Pending("posters")
    /\ \E i \in 1..2 :
        /\ req.pc[i] = "loaded"
        /\ \E r \in {posterSave(balances, req.loaded[i], req.bodies[i], now)} :
            /\ InRange(r.kv)
            /\ balances' = r.kv
            /\ req' = [req EXCEPT !.pc[i] = "done", !.code[i] = r.code,
                                  !.order = Append(@, i)]
    /\ UNCHANGED <<deposits, snapshots, now, uuids, resp, cards, refunds>>

\* both POSTs have answered
PostersDone ==
    /\ Pending("posters")
    /\ req.pc = <<"done", "done">>
    /\ resp' = [code |-> req.code[req.order[2]],
                writes |-> Cardinality({i \in 1..2 : req.code[i] = 200})]
    /\ UNCHANGED <<deposits, snapshots, balances, now, uuids, req, cards, refunds>>

NextPosters ==
    \/ ReceivePosters
    \/ PosterLoad
    \/ PosterSave
    \/ PostersDone
    \/ Respond

SpecPosters == Init /\ [][NextPosters]_vars

---------------------------------------------------------------------------
(* POST /api/deposit/webhook.  A delivery says whether its body is JSON     *)
(* (parsed) and whether its sign field is the signature of the rest of the *)
(* body under the shared secret (sigValid).  Amounts are in cents.         *)

\* verifyWebhookSignature of lib/cryptomus: whether the sign field is the
\* signature of the payload without it
verifyWebhookSignature(delivery) == delivery.sigValid

\* isPaymentSuccessful of lib/cryptomus: the payload indicates success
isPaymentSuccessful(status) == status \in {"paid", "paid_over"}

\* parseFloat(body.payment_amount_usd), in cents
parseFloat(s) ==
    CASE s = "100" -> 10000
      [] s = "50" -> 5000
      [] s = "7.5" -> 750
      [] OTHER -> 0

AmountStrings == {"100", "50", "7.5", "0"}

\* the wallet of body.additional_data: '' when the key is absent, the text is
\* not JSON, or the JSON has no wallet
walletOf(body) ==
    IF "additional_data" \notin DOMAIN body THEN ""
    ELSE CASE body.additional_data = "{\"wallet\":\"w1\"}" -> "w1"
           [] body.additional_data = "{\"wallet\":\"w2\"}" -> "w2"
           [] OTHER -> ""

AdditionalData == {"{\"wallet\":\"w1\"}", "{\"wallet\":\"w2\"}", "{}", "not json"}

\* the fee: 2% + $5
FLAT_FEE == 500

\* the fee without its flat part
feeOf_percentOnly(totalPaid) == (totalPaid * 2) \div 100

feeOf(totalPaid) == ((totalPaid * 2) \div 100) + FLAT_FEE

\* saveWebhookDeposit: kv.set, the store's exception logged and dropped
saveWebhookDeposit(st, F, orderId, deposit) ==
    IF Fails(st, F)
    THEN [st EXCEPT !.n = @ + 1]
    ELSE [st EXCEPT !.n = @ + 1, !.w = @ + 1, !.kv = KvPut(st.kv, orderId, deposit)]

DepositReply(st, code) == [kv |-> st.kv, code |-> code, writes |-> st.w]

depositPOST(kv, F, delivery, t) ==
    IF ~delivery.parsed
    THEN DepositReply(Start(kv), 500)
    ELSE IF ~verifyWebhookSignature(delivery)
    THEN DepositReply(Start(kv), 401)
    ELSE
    LET body == delivery.body
        walletAddress == walletOf(body)
    IN  IF isPaymentSuccessful(body.status)
        THEN LET totalPaid == parseFloat(body.payment_amount_usd)
                 creditAmount == totalPaid - feeOf(totalPaid)
             IN  DepositReply(
                    saveWebhookDeposit(Start(kv), F, body.order_id,
                        [orderId |-> body.order_id,
                         walletAddress |-> walletAddress,
                         amount |-> creditAmount, status |-> "paid",
                         paymentId |-> body.uuid, paidAt |-> t]), 200)
        ELSE IF body.is_final
        THEN DepositReply(
                saveWebhookDeposit(Start(kv), F, body.order_id,
                    [orderId |-> body.order_id,
                     walletAddress |-> walletAddress,
                     amount |-> 0, status |-> body.status,
                     paymentId |-> body.uuid]), 200)
        ELSE DepositReply(Start(kv), 200)

DepositBodies ==
    {[order_id |-> o, uuid |-> "p1", status |-> s, is_final |-> f,
      payment_amount_usd |-> a] :
        o \in Orders, s \in {"paid", "paid_over", "cancel", "process"},
        f \in BOOLEAN, a \in AmountStrings}
    \cup {[order_id |-> "o1", uuid |-> "p2", status |-> s, is_final |-> TRUE,
           payment_amount_usd |-> "100", additional_data |-> d] :
        s \in {"paid", "fail"}, d \in AdditionalData}

DepositDeliveries ==
    {[op |-> "depositPOST", parsed |-> FALSE, sigValid |-> FALSE]}
    \cup {[op |-> "depositPOST", parsed |-> TRUE, sigValid |-> v, body |-> b,
           F |-> F] : v \in BOOLEAN, b \in DepositBodies, F \in FaultSets(1)}

ReceiveDeposit == Receive(DepositDeliveries)

DepositWebhook ==
    /\ Pending("depositPOST")
    /\ \E r \in {IF req.parsed
                 THEN depositPOST(snapshots, req.F, req, now)
                 ELSE depositPOST(snapshots, {}, req, now)} :
        /\ snapshots' = r.kv
        /\ resp' = [code |-> r.code, writes |-> r.writes]
    /\ UNCHANGED <<deposits, balances, now, uuids, req, cards, refunds>>

NextDeposit ==
    \/ Tick
    \/ ReceiveDeposit
    \/ DepositWebhook
    \/ Respond

SpecDeposit == Init /\ [][NextDeposit]_vars

---------------------------------------------------------------------------
(* The card store: GET and POST of the cards route.  Of a card's optional   *)
(* fields (lastFour, balance, cardNumber, cvv, expiry, cardHolder), which   *)
(* the handler treats alike, the records hold lastFour.                     *)

\* a field destructured from the body: undefined when the body lacks it
FieldOf(body, k) == IF k \in DOMAIN body THEN body[k] ELSE UNDEF

\* what JSON.stringify keeps of a card: lastFour unless it is undefined
JsonCard(c) ==
    [k \in {j \in DOMAIN c : ~(j = "lastFour" /\ c[j] = UNDEF)} |-> c[k]]

\* getCards: kv.get, [] when the key is absent or the store throws
getCards(st, F, walletAddress) ==
    [val |-> IF Fails(st, F) \/ walletAddress \notin DOMAIN st.kv
             THEN << >>
             ELSE st.kv[walletAddress],
     st  |-> [st EXCEPT !.n = @ + 1]]

\* saveCards: kv.set, rethrowing the store's exception
saveCards(st, F, walletAddress, list) ==
    IF Fails(st, F)
    THEN [st EXCEPT !.n = @ + 1, !.thrown = TRUE]
    ELSE [st EXCEPT !.n = @ + 1, !.w = @ + 1,
                    !.kv = KvPut(st.kv, walletAddress,
                                 [i \in 1..Len(list) |-> JsonCard(list[i])])]

\* userCards.findIndex(c => c.cardId === cardId), 0 for -1
findCard(list, cardId) ==
    IF \E i \in 1..Len(list) : list[i].cardId = cardId
    THEN CHOOSE i \in 1..Len(list) :
            /\ list[i].cardId = cardId
            /\ \A j \in 1..(i - 1) : list[j].cardId # cardId
    ELSE 0

CardsReply(st, code) == [kv |-> st.kv, code |-> code, writes |-> st.w]

\* the new list: the record of the card id with the body's optional fields
\* spread over it, or a new active record pushed
upsert(userCards, body, uuid, t) ==
    LET existingIndex == findCard(userCards, body.cardId)
    IN  IF existingIndex # 0
        THEN [userCards EXCEPT ![existingIndex] =
                Spread(@, [lastFour |-> FieldOf(body, "lastFour")])]
        ELSE Append(userCards,
                    [id |-> uuid, cardId |-> body.cardId,
                     walletAddress |-> body.walletAddress, createdAt |-> t,
                     lastFour |-> FieldOf(body, "lastFour"),
                     status |-> "active"])

\* POST: body is the parsed JSON body, a record of the keys it holds
cardsPOST(kv, F, parsed, body, uuid, t) ==
    IF ~parsed
    THEN CardsReply(Start(kv), 500)
    ELSE IF "cardId" \notin DOMAIN body \/ "walletAddress" \notin DOMAIN body
    THEN CardsReply(Start(kv), 400)
    ELSE
    LET g == getCards(Start(kv), F, body.walletAddress)
        s2 == saveCards(g.st, F, body.walletAddress, upsert(g.val, body, uuid, t))
    IN  IF s2.thrown THEN CardsReply(s2, 500) ELSE CardsReply(s2, 200)

\* GET ?walletAddress=...: query is the record of the query parameters given
cardsGET(kv, F, query) ==
    IF "walletAddress" \notin DOMAIN query
    THEN [kv |-> kv, code |-> 400, writes |-> 0, cards |-> << >>]
    ELSE LET g == getCards(Start(kv), F, query.walletAddress)
         IN  [kv |-> g.st.kv, code |-> 200, writes |-> g.st.w, cards |-> g.val]

\* the ids handed out so far, given the ids the stored cards hold
CardUuidsUsed(kv, before) ==
    IF \E w \in DOMAIN kv : \E i \in 1..Len(kv[w]) : kv[w][i].id > before
    THEN before + 1
    ELSE before

CardBodies ==
    {[cardId |-> c, walletAddress |-> w] : c \in CardIds, w \in Wallets}
    \cup {[cardId |-> c, walletAddress |-> w, lastFour |-> "4242"] :
            c \in CardIds, w \in Wallets}
    \cup {[cardId |-> "card1"], [walletAddress |-> "w1"]}

CardRequests ==
    {[op |-> "cardsPOST", parsed |-> TRUE, body |-> b, F |-> F] :
        b \in CardBodies, F \in FaultSets(2)}
    \cup {[op |-> "cardsPOST", parsed |-> FALSE]}
    \cup {[op |-> "cardsGET", query |-> [walletAddress |-> w], F |-> F] :
            w \in Wallets, F \in FaultSets(1)}
    \cup {[op |-> "cardsGET", query |-> << >>, F |-> {}]}

ReceiveCards == Receive(CardRequests)

CardsPost ==
    /\ Pending("cardsPOST")
    /\ \E r \in {IF req.parsed
                 THEN cardsPOST(cards, req.F, TRUE, req.body, uuids + 1, now)
                 ELSE cardsPOST(cards, {}, FALSE, << >>, uuids + 1, now)} :
        /\ CardUuidsUsed(r.kv, uuids) <= MaxCardUuids
        /\ \A w \in DOMAIN r.kv : Len(r.kv[w]) <= MaxCards
        /\ cards' = r.kv
        /\ uuids' = CardUuidsUsed(r.kv, uuids)
        /\ resp' = [code |-> r.code, writes |-> r.writes]
    /\ UNCHANGED <<deposits, snapshots, balances, now, req, refunds>>

CardsGet ==
    /\ Pending("cardsGET")
    /\ \E r \in {cardsGET(cards, req.F, req.query)} :
        /\ cards' = r.kv
        /\ resp' = [code |-> r.code, writes |-> r.writes, cards |-> r.cards]
    /\ UNCHANGED <<deposits, snapshots, balances, now, uuids, req, refunds>>

NextCards ==
    \/ Tick
    \/ ReceiveCards
    \/ CardsPost
    \/ CardsGet
    \/ Respond

SpecCards == Init /\ [][NextCards]_vars

---------------------------------------------------------------------------
(* The refunds ledger under its library operations.  A refund record holds  *)
(* its id, wallet, createdAt and status; the amount, the reason and the     *)
(* card balance, which no operation here reads, are left out.               *)

RefundStatusSet == {"pending", "detected", "credited", "expired"}

\* loadPendingRefunds: kv.get, [] when the key is absent or the store throws
loadPendingRefunds(st, F) ==
    [val |-> IF Fails(st, F) THEN << >> ELSE st.kv,
     st  |-> [st EXCEPT !.n = @ + 1]]

\* savePendingRefunds: kv.set, rethrowing the store's exception
savePendingRefunds(st, F, list) ==
    IF Fails(st, F)
    THEN [st EXCEPT !.n = @ + 1, !.thrown = TRUE]
    ELSE [st EXCEPT !.n = @ + 1, !.w = @ + 1, !.kv = list]

\* addPendingRefund: load, push, save
addPendingRefund(st, F, refund, uuid, t) ==
    LET l == loadPendingRefunds(st, F)
        newRefund == Spread(refund,
                            [id |-> uuid, createdAt |-> t, status |-> "pending"])
        s2 == savePendingRefunds(l.st, F, Append(l.val, newRefund))
    IN  [val |-> newRefund, st |-> s2]

\* refunds.findIndex(r => r.id === refundId), 0 for -1
findRefund(list, refundId) ==
    IF \E i \in 1..Len(list) : list[i].id = refundId
    THEN CHOOSE i \in 1..Len(list) :
            /\ list[i].id = refundId
            /\ \A j \in 1..(i - 1) : list[j].id # refundId
    ELSE 0

\* updateRefundStatus: load, find by id, merge, save; nothing when not found
updateRefundStatus(st, F, refundId, status, additionalData) ==
    LET l == loadPendingRefunds(st, F)
        index == findRefund(l.val, refundId)
    IN  IF index # 0
        THEN savePendingRefunds(l.st, F,
                [l.val EXCEPT ![index] =
                    Spread(Spread(@, additionalData), [status |-> status])])
        ELSE l.st

ONE_DAY == 1

\* the test of the sweep on every status
isExpiredRefund_anyStatus(r, t) == (t - r.createdAt) > ONE_DAY

\* the test of the sweep: pending and older than one day
isExpiredRefund(r, t) ==
    /\ r.status = "pending"
    /\ (t - r.createdAt) > ONE_DAY

\* cleanupExpiredRefunds: pending records older than one day become expired;
\* one save when any did
cleanupExpiredRefunds(st, F, t) ==
    LET l == loadPendingRefunds(st, F)
        swept == [i \in 1..Len(l.val) |->
                    IF isExpiredRefund(l.val[i], t)
                    THEN [l.val[i] EXCEPT !.status = "expired"]
                    ELSE l.val[i]]
        changed == \E i \in 1..Len(l.val) : isExpiredRefund(l.val[i], t)
    IN  IF changed THEN savePendingRefunds(l.st, F, swept) ELSE l.st

RefundRequests ==
    {[op |-> "addPendingRefund", walletAddress |-> w, F |-> F] :
        w \in Wallets, F \in FaultSets(2)}
    \cup {[op |-> "updateRefundStatus", refundId |-> i, status |-> s, F |-> F] :
        i \in 1..MaxUuids, s \in {"detected", "credited"}, F \in FaultSets(2)}
    \cup {[op |-> "cleanupExpiredRefunds", F |-> F] : F \in FaultSets(2)}

ReceiveRefunds == Receive(RefundRequests)

AddPendingRefund ==
    /\ Pending("addPendingRefund")
    /\ \E r \in {addPendingRefund(Start(refunds), req.F,
                                  [walletAddress |-> req.walletAddress],
                                  uuids + 1, now)} :
        /\ uuids < MaxUuids
        /\ Len(r.st.kv) <= MaxRefunds
        /\ refunds' = r.st.kv
        /\ uuids' = UuidsUsed(r.st.kv, uuids)
        /\ resp' = [thrown |-> r.st.thrown, writes |-> r.st.w]
    /\ UNCHANGED <<deposits, snapshots, balances, cards, now, req>>

UpdateRefundStatus ==
    /\ Pending("updateRefundStatus")
    /\ \E r \in {updateRefundStatus(Start(refunds), req.F, req.refundId,
                                    req.status, << >>)} :
        /\ refunds' = r.kv
        /\ resp' = [thrown |-> r.thrown, writes |-> r.w]
    /\ UNCHANGED <<deposits, snapshots, balances, cards, now, uuids, req>>

CleanupExpiredRefunds ==
    /\ Pending("cleanupExpiredRefunds")
    /\ \E r \in {cleanupExpiredRefunds(Start(refunds), req.F, now)} :
        /\ refunds' = r.kv
        /\ resp' = [thrown |-> r.thrown, writes |-> r.w]
    /\ UNCHANGED <<deposits, snapshots, balances, cards, now, uuids, req>>

NextRefunds ==
    \/ Tick
    \/ ReceiveRefunds
    \/ AddPendingRefund
    \/ UpdateRefundStatus
    \/ CleanupExpiredRefunds
    \/ Respond

SpecRefunds == Init /\ [][NextRefunds]_vars

---------------------------------------------------------------------------
(* Properties *)

\* the handler of the pending request has just run
Handled(ops) == req.op \in ops /\ resp = NONE /\ resp' # NONE

\* the request of ops has been served and its response not yet sent
Served(ops) == req.op \in ops /\ resp # NONE

WebhookOps == {"kripicardPOST", "depositPOST"}

\* the record of a list that findIndex finds for a payment id
DepositOf(list, paymentId) == list[findIndex(list, paymentId)]

\* the status changes a record may go through while one handler runs: forward
\* along pending, sent, confirmed, credited, or to failed or expired from a
\* status that is not terminal
Rank(status) ==
    CASE status = "pending" -> 0
      [] status = "sent" -> 1
      [] status = "confirmed" -> 2
      [] status = "credited" -> 3
      [] OTHER -> 4

Allowed(from, to) ==
    \/ from = to
    \/ Rank(from) < Rank(to) /\ Rank(to) <= 3
    \/ from \in {"pending", "sent", "confirmed"} /\ to \in {"failed", "expired"}

\* C1: a deposit record's status changes only forward along pending -> sent ->
\* confirmed -> credited, or to failed/expired from pending, sent or confirmed;
\* no record, identified by its id, makes any other change of status.
C1_StatusTransitions ==
    [][\A i \in 1..Len(deposits), j \in 1..Len(deposits') :
            deposits[i].id = deposits'[j].id
                => Allowed(deposits[i].status, deposits'[j].status)]_vars

\* C2: a webhook delivery whose body parses and whose signature is invalid gets
\* HTTP 401 and writes nothing to the store.
C2_InvalidSignatureRejected ==
    [][(Handled(WebhookOps) /\ req.parsed /\ ~req.sigValid)
            => /\ resp'.code = 401
               /\ resp'.writes = 0
               /\ deposits' = deposits
               /\ snapshots' = snapshots]_vars

\* the balance a wallet has in the store: 0 when it has no record
StoredBalance(w) == IF w \in DOMAIN balances THEN balances[w].balance ELSE 0

\* a balance POST that passes the validation of its fields
ValidPost(action) ==
    /\ req.op = "balancePOST" /\ req.parsed
    /\ {"walletAddress", "action", "amount"} \subseteq DOMAIN req.body
    /\ req.body.action = action

\* C3: a debit of more than the wallet's stored balance is answered 400
\* "Insufficient balance" and leaves the stored balance records unchanged.
C3_FailedDebit ==
    [][(Handled({"balancePOST"}) /\ ValidPost("debit")
            /\ req.body.amount > StoredBalance(req.body.walletAddress))
            => /\ resp'.code = 400
               /\ resp'.message = "Insufficient balance"
               /\ balances' = balances]_vars

\* C4: no two records of the stored deposit list have the same paymentId.
C4_UniquePaymentId ==
    \A i, j \in 1..Len(deposits) :
        i # j => deposits[i].paymentId # deposits[j].paymentId

\* C5: a deposit record is never deleted: every paymentId of the stored list is
\* still a paymentId of the stored list after any step.
C5_NeverDeleted ==
    [][\A i \in 1..Len(deposits) :
            \E j \in 1..Len(deposits') :
                deposits'[j].paymentId = deposits[i].paymentId]_vars

\* a kripicard delivery of a confirmation status, served without a store fault,
\* for a deposit that was not card-created before: the card call is made
CardCase ==
    /\ Handled({"kripicardPOST"}) /\ req.parsed
    /\ req.status \in {"paid", "paid_over", "confirm_check"}
    /\ req.F = {}
    /\ \/ findIndex(deposits, req.paymentId) = 0
       \/ ~Truthy(DepositOf(deposits, req.paymentId), "cardCreated")

C7_WebhookAlways200 ==
    Served(WebhookOps) => \/ resp.code = 200
                          \/ resp.code = 401 /\ ~req.sigValid

\* C8: from every reachable balance store, for every wallet and every amount, a
\* credit of the amount followed at once by a debit of the same amount (no store
\* fault in either) succeeds, returns balance to its value before the credit and
\* makes totalDeposited and totalSpent each larger by the amount.
C8_CreditThenDebit ==
    Idle =>
    \A w \in Wallets, a \in Amounts :
        LET body(action) == [walletAddress |-> w, action |-> action, amount |-> a]
            before == IF w \in DOMAIN balances THEN balances[w] ELSE ZeroBalance(now)
            credit == balancePOST(balances, {}, TRUE, body("credit"), now)
            debit == balancePOST(credit.kv, {}, TRUE, body("debit"), now)
        IN  (credit.code = 200 /\ InRange(credit.kv)) =>
                /\ debit.code = 200
                /\ debit.kv[w].balance = before.balance
                /\ debit.kv[w].totalDeposited = Round(before.totalDeposited + a)
                /\ debit.kv[w].totalSpent = Round(before.totalSpent + a)

\* C9: every stored balance record has balance = totalDeposited - totalSpent.
C9_BalanceIsDepositedMinusSpent ==
    \A w \in DOMAIN balances :
        balances[w].balance
            = Round(balances[w].totalDeposited - balances[w].totalSpent)

\* C10: a mark-as helper, and so updateDepositStatus, called with a paymentId
\* that no stored record has returns null, issues no write and leaves the stored
\* list as it was.
C10_UnknownIdIsNoop ==
    [][(Handled(MarkOps) /\ findIndex(deposits, req.paymentId) = 0)
            => /\ resp'.null
               /\ resp'.writes = 0
               /\ ~resp'.thrown
               /\ deposits' = deposits]_vars

C10_Witness ==
    /\ Served(MarkOps) /\ resp.null /\ req.F = {}
    /\ Len(deposits) > 0
    /\ findIndex(deposits, req.paymentId) = 0

\* a record the deposit sweep is to expire: pending or sent, more than 7 days old
DueForExpiry(d) ==
    /\ d.status \in {"pending", "sent"}
    /\ now - d.createdAt > 7

\* C11: the deposit expiry sweep changes a record only by setting status expired,
\* and only a pending or sent record more than 7 days old; when its store calls
\* succeed it expires every such record; records in any other status or not
\* older than 7 days are untouched; the count it returns is the number of
\* records it expired.
C11_ExpirySweep ==
    [][Handled({"cleanupExpiredDeposits"}) =>
        /\ Len(deposits') = Len(deposits)
        /\ \A i \in 1..Len(deposits) :
            /\ deposits'[i] # deposits[i] =>
                    /\ DueForExpiry(deposits[i])
                    /\ deposits'[i] = [deposits[i] EXCEPT !.status = "expired"]
            /\ (req.F = {} /\ DueForExpiry(deposits[i])) =>
                    deposits'[i].status = "expired"
        /\ ~resp'.thrown =>
                resp'.count = Cardinality({i \in 1..Len(deposits) :
                                            deposits'[i] # deposits[i]})]_vars

\* a sweep has expired a record 8 days old and left one exactly 7 days old
C11_Witness ==
    /\ Served({"cleanupExpiredDeposits"}) /\ resp.count = 1 /\ ~resp.thrown
    /\ \E i, j \in 1..Len(deposits) :
        /\ deposits[i].status = "expired" /\ now - deposits[i].createdAt = 8
        /\ deposits[j].status \in {"pending", "sent"}
        /\ now - deposits[j].createdAt = 7

\* the number of stored records in a status
StoredWith(status) ==
    Cardinality({i \in 1..Len(deposits) : deposits[i].status = status})

\* C12: the summary's total is the sum of its six per-status counts; when its
\* read of the ledger succeeds, each count is the number of stored records in
\* that status, total is the length of the stored list, pending + sent is the
\* size of the query-pending result and confirmed + credited the size of the
\* query-confirmed result.
C12_SummaryCounts ==
    Served({"getDepositSummary"}) =>
        LET s == resp.summary
        IN  /\ s.total = s.pending + s.sent + s.confirmed + s.credited
                            + s.failed + s.expired
            /\ req.F = {} =>
                /\ s.total = Len(deposits)
                /\ s.pending = StoredWith("pending")
                /\ s.sent = StoredWith("sent")
                /\ s.confirmed = StoredWith("confirmed")
                /\ s.credited = StoredWith("credited")
                /\ s.failed = StoredWith("failed")
                /\ s.expired = StoredWith("expired")
                /\ s.pending + s.sent
                        = Len(getPendingDeposits(Start(deposits), {}).val)
                /\ s.confirmed + s.credited
                        = Len(getConfirmedDeposits(Start(deposits), {}).val)

\* a summary of a ledger of one sent and one credited record
C12_Witness ==
    /\ Served({"getDepositSummary"}) /\ req.F = {}
    /\ resp.summary.total = 2
    /\ resp.summary.sent = 1 /\ resp.summary.credited = 1

\* a validly signed delivery to the deposit webhook
SignedDeposit == req.op = "depositPOST" /\ req.parsed /\ req.sigValid

\* C13: a validly signed delivery with a successful status is answered 200 and,
\* its kv.set succeeding, stores under its order id a snapshot with status paid
\* whose amount, in cents, is the paid amount minus 2% of it and minus 500 (paid
\* "100" gives 9300); no other snapshot changes.
C13_CreditedAmount ==
    [][(Handled({"depositPOST"}) /\ SignedDeposit
            /\ req.body.status \in {"paid", "paid_over"}) =>
        LET o == req.body.order_id
            paid == parseFloat(req.body.payment_amount_usd)
        IN  /\ resp'.code = 200
            /\ IF req.F = {}
               THEN /\ DOMAIN snapshots' = DOMAIN snapshots \cup {o}
                    /\ \A k \in DOMAIN snapshots : k # o => snapshots'[k] = snapshots[k]
                    /\ snapshots'[o].orderId = o
                    /\ snapshots'[o].paymentId = req.body.uuid
                    /\ snapshots'[o].status = "paid"
                    /\ 100 * snapshots'[o].amount = (98 * paid) - 50000
                    /\ req.body.payment_amount_usd = "100"
                            => snapshots'[o].amount = 9300
               ELSE snapshots' = snapshots]_vars

\* a signed paid_over delivery of "100" has stored a snapshot of 9300 cents
C13_Witness ==
    /\ Served({"depositPOST"}) /\ SignedDeposit /\ req.F = {}
    /\ req.body.status = "paid_over"
    /\ req.body.payment_amount_usd = "100"
    /\ snapshots[req.body.order_id].amount = 9300
    /\ snapshots[req.body.order_id].status = "paid"

\* a kripicard delivery of a confirmation status for a deposit not card-created
\* before, whose card-creation call fails, answers unsuccessfully or throws
CardFailCase ==
    /\ Handled({"kripicardPOST"}) /\ req.parsed
    /\ req.status \in {"paid", "paid_over", "confirm_check"}
    /\ req.card \in {"failure", "throws"}
    /\ \/ findIndex(deposits, req.paymentId) = 0
       \/ ~Truthy(DepositOf(deposits, req.paymentId), "cardCreated")

\* C14: when the card-creation call is made and fails, answers unsuccessfully or
\* throws, the webhook still answers 200, the call is not made again within the
\* delivery,
\* and the deposit record never gets cardCreated = true or a card id.
C14_CardFailureSwallowed ==
    [][(CardFailCase /\ resp'.cardCalls > 0) =>
        /\ resp'.code = 200
        /\ resp'.cardCalls = 1
        /\ findIndex(deposits', req.paymentId) # 0 =>
                /\ ~Truthy(DepositOf(deposits', req.paymentId), "cardCreated")
                /\ "cardId" \notin DOMAIN DepositOf(deposits', req.paymentId)]_vars

\* the change a writer made is in a list: the record it added, by its id, or
\* the status it set on the record of its payment id
Visible(c, result, list) ==
    IF c.call = "addPendingDeposit"
    THEN \E k \in 1..Len(list) : list[k].id = result.id
    ELSE /\ findIndex(list, c.paymentId) # 0
         /\ DepositOf(list, c.paymentId).status = result.status

\* both writers returned after saving, having held their loaded lists at the
\* same time; each changed the list it loaded, and they are not the same status
\* change of the same record
Raced ==
    /\ Served({"writers"}) /\ req.overlap
    /\ req.saved = <<TRUE, TRUE>>
    /\ \A i \in 1..2 : ~Visible(req.calls[i], req.result[i], req.loaded[i])
    /\ ~(req.calls[1] = req.calls[2] /\ req.calls[1].call # "addPendingDeposit")

\* C15: last writer wins: when two writers that both save hold their loaded
\* lists at the same time, the stored list after both have returned holds the
\* change of the one that saved last and lacks the change of the one that
\* saved first.
C15_LastWriterWins ==
    Raced =>
        LET first == req.order[1]
            last == req.order[2]
        IN  /\ Visible(req.calls[last], req.result[last], deposits)
            /\ ~Visible(req.calls[first], req.result[first], deposits)

\* an add and a status update of another record raced, both returned, and the
\* added record is not in the stored list
C15_Witness ==
    /\ Raced
    /\ req.calls[req.order[1]].call = "addPendingDeposit"
    /\ req.calls[req.order[2]].call = "markDepositAsSent"
    /\ req.result[1] # NULL /\ req.result[2] # NULL
    /\ \A k \in 1..Len(deposits) :
            deposits[k].paymentId # req.calls[req.order[1]].paymentId

\* two debits of one wallet have both been answered 200, both having read the
\* balance before either saved
DebitsRaced ==
    /\ Served({"posters"}) /\ req.overlap
    /\ \A i \in 1..2 : req.bodies[i].action = "debit" /\ req.code[i] = 200
    /\ req.bodies[1].walletAddress = req.bodies[2].walletAddress

\* C16: when two debits of one wallet both read the balance before either
\* saves and both succeed, the stored record afterwards is the record they read
\* with only the debit that saved last applied: balance smaller and totalSpent
\* larger by that one amount, totalDeposited as it was.
C16_DebitRace ==
    DebitsRaced =>
        LET w == req.bodies[1].walletAddress
            before == req.loaded[1][w]
            a == req.bodies[req.order[2]].amount
        IN  /\ req.loaded[2][w] = before
            /\ balances[w].balance = Round(before.balance - a)
            /\ balances[w].totalSpent = Round(before.totalSpent + a)
            /\ balances[w].totalDeposited = before.totalDeposited

\* two debits, each within the balance they read and together above it, have
\* both succeeded and the stored record shows one of them
C16_Witness ==
    /\ DebitsRaced
    /\ LET w == req.bodies[1].walletAddress
           before == req.loaded[1][w]
       IN  /\ req.bodies[1].amount <= before.balance
           /\ req.bodies[2].amount <= before.balance
           /\ req.bodies[1].amount + req.bodies[2].amount > before.balance
           /\ balances[w].balance = before.balance - req.bodies[req.order[2]].amount
           /\ balances[w].totalSpent
                = before.totalSpent + req.bodies[req.order[2]].amount

\* the card list stored for a wallet: [] when it has none
CardsOf(kv, w) == IF w \in DOMAIN kv THEN kv[w] ELSE << >>

\* a card POST that passes the validation of its fields
ValidCardPost ==
    /\ req.op = "cardsPOST" /\ req.parsed
    /\ {"cardId", "walletAddress"} \subseteq DOMAIN req.body

\* C17: after a card POST no two records of the wallet's list share a cardId; a
\* POST with a cardId the list holds keeps the length of the list and that
\* record's id, cardId, walletAddress, createdAt and status; a POST with a new
\* cardId that is answered 200 appends one record, with status active, to the
\* list as it was.
C17_CardUpsert ==
    [][(Handled({"cardsPOST"}) /\ ValidCardPost) =>
        LET old == CardsOf(cards, req.body.walletAddress)
            new == CardsOf(cards', req.body.walletAddress)
            at == findCard(old, req.body.cardId)
        IN  /\ \A i, j \in 1..Len(new) : i # j => new[i].cardId # new[j].cardId
            /\ IF at # 0
               THEN /\ Len(new) = Len(old)
                    /\ new[at].id = old[at].id
                    /\ new[at].cardId = old[at].cardId
                    /\ new[at].walletAddress = old[at].walletAddress
                    /\ new[at].createdAt = old[at].createdAt
                    /\ new[at].status = old[at].status
               ELSE resp'.code = 200 =>
                    /\ Len(new) = Len(old) + 1
                    /\ SubSeq(new, 1, Len(old)) = old
                    /\ new[Len(new)].cardId = req.body.cardId
                    /\ new[Len(new)].status = "active"]_vars

\* a delivery whose status is non-terminal: not successful and not final (the
\* kripicard handler reads the status only, "process" being neither a
\* confirmation nor a failure)
NonTerminal ==
    \/ /\ SignedDeposit
       /\ ~isPaymentSuccessful(req.body.status) /\ ~req.body.is_final
    \/ /\ req.op = "kripicardPOST" /\ req.parsed /\ req.sigValid
       /\ req.status \notin (ConfirmStatuses \cup FailStatuses)

\* C18: a validly signed delivery with a non-terminal status changes nothing in
\* the store: the deposit webhook writes no snapshot, and the snapshots and the
\* deposit records are after it what they were before.
C18_NonTerminalNoop ==
    [][(Handled({"depositPOST", "kripicardPOST"}) /\ NonTerminal) =>
        /\ resp'.writes = 0
        /\ snapshots' = snapshots
        /\ deposits' = deposits]_vars

\* C19: a balance POST answered 400 makes no store write and leaves the stored
\* balance records of all wallets unchanged; a balance GET makes no store write
\* and leaves them unchanged too, and for a wallet without a record it answers
\* with the zeroed record, the wallet still being without a record afterwards.
C19_RejectedOrReadLeavesStore ==
    [][/\ (Handled({"balancePOST"}) /\ resp'.code = 400) =>
            /\ resp'.writes = 0
            /\ balances' = balances
       /\ Handled({"balanceGET"}) =>
            /\ resp'.writes = 0
            /\ balances' = balances
            /\ ("wallet" \in DOMAIN req.query
                    /\ req.query.wallet \notin DOMAIN balances) =>
                /\ resp'.code = 200
                /\ resp'.data = ZeroBalance(now)
                /\ req.query.wallet \notin DOMAIN balances']_vars

\* a GET for a wallet without a record was answered with the zeroed record
\* while another wallet's record is stored, after which the wallet still has
\* no record
C19_Witness ==
    /\ Served({"balanceGET"})
    /\ "wallet" \in DOMAIN req.query
    /\ req.query.wallet \notin DOMAIN balances
    /\ balances # << >>
    /\ resp.code = 200 /\ resp.data.balance = 0 /\ resp.writes = 0

\* a refund record the sweep is to expire: pending, more than 24 hours old
RefundDue(r) == r.status = "pending" /\ now - r.createdAt > 1

\* C20: the refund expiry sweep removes no record and changes a record only by
\* setting status expired, and only a pending record more than 24 hours old;
\* when its store calls succeed it expires every such record; records in status
\* detected, credited or expired and pending records not older than 24 hours
\* are unchanged; when no record is due it makes no store write.
C20_RefundSweep ==
    [][Handled({"cleanupExpiredRefunds"}) =>
        /\ Len(refunds') = Len(refunds)
        /\ \A i \in 1..Len(refunds) :
            /\ refunds'[i] # refunds[i] =>
                    /\ RefundDue(refunds[i])
                    /\ refunds'[i] = [refunds[i] EXCEPT !.status = "expired"]
            /\ (req.F = {} /\ RefundDue(refunds[i])) =>
                    refunds'[i].status = "expired"
        /\ (\A i \in 1..Len(refunds) : ~RefundDue(refunds[i])) =>
                resp'.writes = 0]_vars

\* a sweep has expired a pending record older than a day and left a detected
\* record of the same age as it was
C20_Witness ==
    /\ Served({"cleanupExpiredRefunds"}) /\ resp.writes = 1
    /\ \E i, j \in 1..Len(refunds) :
        /\ refunds[i].status = "expired" /\ now - refunds[i].createdAt > 1
        /\ refunds[j].status = "detected"
        /\ now - refunds[j].createdAt > 1

\* C21: credits and debits of non-negative amounts, one after another or two at
\* a time with their reads and writes interleaved, never leave a negative
\* balance in a stored record.
C21_NeverNegative ==
    \A w \in DOMAIN balances : balances[w].balance >= 0

\* a credit and a debit of one wallet both read the balance before either
\* saved, and the debit, of the whole balance it read, saved last: the stored
\* balance is 0
C21_Witness ==
    /\ Served({"posters"}) /\ req.overlap
    /\ req.bodies[1].walletAddress = req.bodies[2].walletAddress
    /\ LET i == req.order[2]
           w == req.bodies[i].walletAddress
       IN  /\ req.bodies[i].action = "debit" /\ req.code[i] = 200
           /\ req.bodies[3 - i].action = "credit"
           /\ req.bodies[i].amount = req.loaded[i][w].balance
           /\ balances[w].balance = 0

\* C22: of two kripicard deliveries of a confirmation status for one payment
\* id, one after the other or overlapping, at most one gets success from the
\* card-creation endpoint.
C22_CardCreatedOnce ==
    (Served({"deliveries"}) /\ req.d[1].paymentId = req.d[2].paymentId)
        => ~(req.success[1] /\ req.success[2])

\* the balance, totalDeposited and totalSpent of a balance record
Totals(b) == <<b.balance, b.totalDeposited, b.totalSpent>>

\* C23: a failed store read loses no stored data: after an addPendingDeposit
\* whose read failed every record stored before is still stored, and after a
\* balance credit or debit whose read failed the wallet's stored balance,
\* totalDeposited and totalSpent are what was stored before, or that with the
\* request applied.
C23_FailedReadLosesNothing ==
    [][/\ (Handled({"addPendingDeposit"}) /\ 1 \in req.F) =>
            \A i \in 1..Len(deposits) :
                \E j \in 1..Len(deposits') : deposits'[j] = deposits[i]
       /\ (Handled({"balancePOST"})
                /\ (ValidPost("credit") \/ ValidPost("debit"))
                /\ 1 \in req.F
                /\ req.body.walletAddress \in DOMAIN balances) =>
            LET w == req.body.walletAddress
                applied == balancePOST(balances, {}, TRUE, req.body, now).kv[w]
            IN  /\ w \in DOMAIN balances'
                /\ Totals(balances'[w])
                        \in {Totals(balances[w]), Totals(applied)}]_vars

\* C24: a kripicard delivery makes a card-creation call only when its status is
\* paid, paid_over or confirm_check; with status cancel, fail or wrong_amount it
\* makes no such call and, its store calls succeeding, leaves the deposit failed
\* with the error text "Payment <status>"; with any other status it makes no
\* such call and no record stored before has another status afterwards.
C24_CardCallOnlyOnConfirmation ==
    [][Handled({"kripicardPOST"}) =>
        /\ resp'.cardCalls > 0 =>
                /\ req.parsed
                /\ req.status \in {"paid", "paid_over", "confirm_check"}
        /\ (req.parsed /\ req.status \in {"cancel", "fail", "wrong_amount"}) =>
                /\ resp'.cardCalls = 0
                /\ req.F = {} =>
                    LET d == DepositOf(deposits', req.paymentId)
                    IN  /\ d.status = "failed"
                        /\ "error" \in DOMAIN d
                        /\ d.error = CASE req.status = "cancel" -> "Payment cancel"
                                        [] req.status = "fail" -> "Payment fail"
                                        [] OTHER -> "Payment wrong_amount"
        /\ (req.parsed /\ req.status \notin {"paid", "paid_over", "confirm_check",
                                               "cancel", "fail", "wrong_amount"}) =>
                /\ resp'.cardCalls = 0
                /\ \A i \in 1..Len(deposits), j \in 1..Len(deposits') :
                        deposits[i].id = deposits'[j].id
                            => deposits'[j].status = deposits[i].status]_vars

\* a delivery with status wrong_amount has left its deposit failed with the
\* error text, no card-creation call made
C24_Witness ==
    /\ Served({"kripicardPOST"}) /\ req.parsed /\ req.F = {}
    /\ req.status = "wrong_amount"
    /\ resp.cardCalls = 0 /\ resp.writes = 1
    /\ LET d == DepositOf(deposits, req.paymentId)
       IN  /\ d.status = "failed"
           /\ "error" \in DOMAIN d
           /\ d.error = "Payment wrong_amount"

====
